---- MODULE Spec2Model ----
(***************************************************************************)
(* chunkmaker: normalisation of a meeting transcript, its segmentation     *)
(* into size-bounded spans and the emission of chunk records.              *)
(*                                                                         *)
(* A Python str is a sequence of code points; offsets are 0-based and      *)
(* half-open as in the source, so text[a:b] is SubSeq(text, a + 1, b).     *)
(***************************************************************************)
EXTENDS Integers, Sequences, FiniteSets, TLC

\* ------------------------------------------------------------------------
\* Code points named by the source.
\* ------------------------------------------------------------------------
TAB == 9
LF == 10
VT == 11
FF == 12
CR == 13
SP == 32
BANG == 33
DOT == 46
HYPHEN == 45
SLASH == 47
DIGIT0 == 48
QMARK == 63
BACKSLASH == 92
LETTER_A == 97
LETTER_B == 98
LETTER_N == 110
LETTER_R == 114
PIPE == 124
ARABIC_INDIC_ZERO == 1632
BOM == 65279
HANGUL_NYEON == 45380
HANGUL_WOL == 50900
HANGUL_IL == 51068
HANGUL_DA == 45796
HANGUL_YO == 50836
HANGUL_HAM == 54632

\* str.isspace() / the regex class \s, restricted to the code points above.
Whitespace == {TAB, LF, VT, FF, CR, SP}

IsSpace(c) == c \in Whitespace

\* ------------------------------------------------------------------------
\* Python string primitives.
\* ------------------------------------------------------------------------

\* s[a:b] with Python's treatment of negative and out-of-range offsets.
ClampIndex(i, n) == IF i < 0 THEN (IF i + n < 0 THEN 0 ELSE i + n)
                    ELSE (IF i > n THEN n ELSE i)

PySlice(s, a, b) ==
    LET lo == ClampIndex(a, Len(s))
        hi == ClampIndex(b, Len(s))
    IN IF lo < hi THEN SubSeq(s, lo + 1, hi) ELSE << >>

\* s.startswith(pat, i) for 0-based i.
StartsWithAt(s, pat, i) ==
    /\ i + Len(pat) <= Len(s)
    /\ \A k \in 1..Len(pat) : s[i + k] = pat[k]

\* s[i:].replace(pat, rep): leftmost, non-overlapping occurrences.
RECURSIVE ReplaceFrom(_, _, _, _)
ReplaceFrom(s, pat, rep, i) ==
    IF i >= Len(s) THEN << >>
    ELSE IF StartsWithAt(s, pat, i)
         THEN rep \o ReplaceFrom(s, pat, rep, i + Len(pat))
         ELSE << s[i + 1] >> \o ReplaceFrom(s, pat, rep, i + 1)

Replace(s, pat, rep) == ReplaceFrom(s, pat, rep, 0)

\* s.lstrip(chars)
RECURSIVE LStripChars(_, _)
LStripChars(s, chars) ==
    IF s # << >> /\ Head(s) \in chars THEN LStripChars(Tail(s), chars) ELSE s

RECURSIVE RStripChars(_, _)
RStripChars(s, chars) ==
    IF s # << >> /\ s[Len(s)] \in chars
    THEN RStripChars(SubSeq(s, 1, Len(s) - 1), chars) ELSE s

\* Mutant: only trailing whitespace is removed.
Strip_RightOnly(s) == RStripChars(s, Whitespace)

\* s.strip()
Strip(s) == RStripChars(LStripChars(s, Whitespace), Whitespace)

\* Length of the maximal run of c in s starting at 0-based offset i.
RECURSIVE RunLength(_, _, _)
RunLength(s, c, i) ==
    IF i < Len(s) /\ s[i + 1] = c THEN 1 + RunLength(s, c, i + 1) ELSE 0

\* re.sub(r"\n{3,}", "\n\n", s[i:])
RECURSIVE CollapseNewlinesFrom(_, _)
CollapseNewlinesFrom(s, i) ==
    IF i >= Len(s) THEN << >>
    ELSE LET run == RunLength(s, LF, i)
         IN IF run >= 3 THEN << LF, LF >> \o CollapseNewlinesFrom(s, i + run)
            ELSE << s[i + 1] >> \o CollapseNewlinesFrom(s, i + 1)

CollapseNewlines(s) == CollapseNewlinesFrom(s, 0)

\* ------------------------------------------------------------------------
\* normalize_text
\* ------------------------------------------------------------------------
EscCRLF == << BACKSLASH, LETTER_R, BACKSLASH, LETTER_N >>
EscLF == << BACKSLASH, LETTER_N >>
EscCR == << BACKSLASH, LETTER_R >>

StripBOM(text) == LStripChars(text, {BOM})

\* Mutant: the two-character escapes are replaced before the four-character one.
ReplaceEscapes_ShortFirst(text) ==
    Replace(Replace(Replace(text, EscLF, << LF >>), EscCR, << LF >>), EscCRLF, << LF >>)

ReplaceEscapes(text) ==
    Replace(Replace(Replace(text, EscCRLF, << LF >>), EscLF, << LF >>), EscCR, << LF >>)

ReplaceRealLineEndings(text) ==
    Replace(Replace(text, << CR, LF >>, << LF >>), << CR >>, << LF >>)

ReplaceTabs(text) == Replace(text, << TAB >>, << SP >>)

normalize_text(text) ==
    Strip(CollapseNewlines(ReplaceTabs(ReplaceRealLineEndings(ReplaceEscapes(StripBOM(text))))))

\* ------------------------------------------------------------------------
\* Spans are pairs << start, end >> of 0-based half-open offsets.
\* ------------------------------------------------------------------------
Min(a, b) == IF a <= b THEN a ELSE b
Max(a, b) == IF a >= b THEN a ELSE b

SetMax(S) == CHOOSE m \in S : \A x \in S : x <= m

\* F(v) with v evaluated once, before F is applied: a local variable of the
\* source that is assigned once and read several times.
Bind(v, F(_)) == CHOOSE w \in {F(x) : x \in {v}} : TRUE

\* ------------------------------------------------------------------------
\* paragraph_block_spans
\* ------------------------------------------------------------------------

\* First offset q >= i at which text has no whitespace character (or Len).
RECURSIVE WhitespaceRunEnd(_, _)
WhitespaceRunEnd(text, i) ==
    IF i < Len(text) /\ IsSpace(text[i + 1]) THEN WhitespaceRunEnd(text, i + 1) ELSE i

\* Mutant: the match is lazy, it ends after the first newline that follows
\* text[p] in the whitespace run.
SeparatorMatchEnd_Lazy(text, p) ==
    IF text[p + 1] # LF THEN -1
    ELSE LET q == WhitespaceRunEnd(text, p + 1)
             lfs == {j \in (p + 1)..(q - 1) : text[j + 1] = LF}
         IN IF lfs = {} THEN -1
            ELSE (CHOOSE j \in lfs : \A i \in lfs : j <= i) + 1

\* End of the match of \n\s*\n+ that starts at offset p, or -1 when the
\* pattern does not match there: the greedy \s* backtracks to the last
\* newline of the whitespace run that follows text[p].
SeparatorMatchEnd(text, p) ==
    IF text[p + 1] # LF THEN -1
    ELSE LET q == WhitespaceRunEnd(text, p + 1)
             lfs == {j \in (p + 1)..(q - 1) : text[j + 1] = LF}
         IN IF lfs = {} THEN -1 ELSE SetMax(lfs) + 1

\* The finditer loop: pos is the regex search position, start the loop variable.
RECURSIVE BlockScan(_, _, _)
BlockScan(text, pos, start) ==
    IF pos >= Len(text)
    THEN (IF start < Len(text) THEN << << start, Len(text) >> >> ELSE << >>)
    ELSE LET e == SeparatorMatchEnd(text, pos)
         IN IF e < 0 THEN BlockScan(text, pos + 1, start)
            ELSE (IF pos > start THEN << << start, pos >> >> ELSE << >>)
                 \o BlockScan(text, e, e)

paragraph_block_spans(text) == BlockScan(text, 0, 0)

\* ------------------------------------------------------------------------
\* sentence_end_positions
\* ------------------------------------------------------------------------
LatinTerminals == {DOT, BANG, QMARK}
KoreanTerminals == {HANGUL_DA, HANGUL_YO, HANGUL_HAM}

\* (?=\s|$) at offset e
SentenceLookahead(text, e) == e >= Len(text) \/ IsSpace(text[e + 1])

\* End of the pattern's match starting at offset i, or -1.
SentenceMatchEnd(text, i) ==
    IF text[i + 1] \in LatinTerminals /\ SentenceLookahead(text, i + 1) THEN i + 1
    ELSE IF /\ text[i + 1] \in KoreanTerminals
            /\ i + 1 < Len(text)
            /\ text[i + 2] = DOT
            /\ SentenceLookahead(text, i + 2)
         THEN i + 2
         ELSE -1

RECURSIVE SentenceScan(_, _)
SentenceScan(text, i) ==
    IF i >= Len(text) THEN << >>
    ELSE LET e == SentenceMatchEnd(text, i)
         IN IF e < 0 THEN SentenceScan(text, i + 1)
            ELSE << e >> \o SentenceScan(text, e)

sentence_end_positions(text) == SentenceScan(text, 0)

\* ------------------------------------------------------------------------
\* split_block_into_spans
\* A result is [raised, spans]: raised is TRUE when the call ends in
\* ValueError (range() with step 0) instead of returning.
\* ------------------------------------------------------------------------
Returned(spans) == [raised |-> FALSE, spans |-> spans]
Raised == [raised |-> TRUE, spans |-> << >>]

\* list(range(i, stop, step)) for step # 0
RECURSIVE Range(_, _, _)
Range(i, stop, step) ==
    IF (step > 0 /\ i < stop) \/ (step < 0 /\ i > stop)
    THEN << i >> \o Range(i + step, stop, step)
    ELSE << >>

\* Mutant: a last window shorter than max_chars is not emitted.
FixedWidthSpans_DropShortTail(block_start, from, block_len, max_chars) ==
    IF max_chars = 0 THEN Raised
    ELSE Bind(Range(from, block_len - max_chars + 1, max_chars), LAMBDA r :
            Returned([k \in 1..Len(r) |->
                        << block_start + r[k], block_start + r[k] + max_chars >>]))

\* for i in range(from, len(block_text), max_chars): spans.append(...)
FixedWidthSpans(block_start, from, block_len, max_chars) ==
    IF max_chars = 0 THEN Raised
    ELSE Bind(Range(from, block_len, max_chars), LAMBDA r :
            Returned([k \in 1..Len(r) |->
                        << block_start + r[k],
                           block_start + Min(r[k] + max_chars, block_len) >>]))

\* Mutant: the spans cut inside the loop are left relative to the block.
GreedyStep_BlockRelative(st, end, block_start, block_len, max_chars) ==
    IF end - st.current_start <= max_chars
    THEN [st EXCEPT !.last_end = end]
    ELSE LET hard_end == Min(st.current_start + max_chars, block_len)
             cut == IF st.last_end = st.current_start THEN hard_end ELSE st.last_end
         IN [spans |-> Append(st.spans, << st.current_start, cut >>),
             current_start |-> cut,
             last_end |-> IF end - cut <= max_chars THEN end ELSE cut]

\* Mutant: with no boundary accepted, the window is closed at the sentence
\* end that does not fit instead of being hard-cut at max_chars.
GreedyStep_CutAtSentenceEnd(st, end, block_start, block_len, max_chars) ==
    IF end - st.current_start <= max_chars
    THEN [st EXCEPT !.last_end = end]
    ELSE LET cut == IF st.last_end = st.current_start THEN end ELSE st.last_end
         IN [spans |-> Append(st.spans, << block_start + st.current_start,
                                           block_start + cut >>),
             current_start |-> cut,
             last_end |-> IF end - cut <= max_chars THEN end ELSE cut]

\* Mutant: the first boundary accepted in a window is kept, later ones that
\* fit are not.
GreedyStep_KeepFirstBoundary(st, end, block_start, block_len, max_chars) ==
    IF end - st.current_start <= max_chars
    THEN (IF st.last_end = st.current_start THEN [st EXCEPT !.last_end = end] ELSE st)
    ELSE LET hard_end == Min(st.current_start + max_chars, block_len)
             cut == IF st.last_end = st.current_start THEN hard_end ELSE st.last_end
         IN [spans |-> Append(st.spans, << block_start + st.current_start,
                                           block_start + cut >>),
             current_start |-> cut,
             last_end |-> IF end - cut <= max_chars THEN end ELSE cut]

\* One iteration of the loop over ends. st holds the loop's variables:
\* [spans, current_start, last_end].
GreedyStep(st, end, block_start, block_len, max_chars) ==
    IF end - st.current_start <= max_chars
    THEN [st EXCEPT !.last_end = end]
    ELSE LET hard_end == Min(st.current_start + max_chars, block_len)
             cut == IF st.last_end = st.current_start THEN hard_end ELSE st.last_end
         IN [spans |-> Append(st.spans, << block_start + st.current_start,
                                           block_start + cut >>),
             current_start |-> cut,
             last_end |-> IF end - cut <= max_chars THEN end ELSE cut]

\* The loop over ends from its k-th element on.
RECURSIVE GreedyLoop(_, _, _, _, _, _)
GreedyLoop(ends, k, st, block_start, block_len, max_chars) ==
    IF k > Len(ends) THEN st
    ELSE Bind(GreedyStep(st, ends[k], block_start, block_len, max_chars),
              LAMBDA st2 : GreedyLoop(ends, k + 1, st2, block_start, block_len,
                                      max_chars))

\* Mutant: after the flush the rest of the block is not sliced.
GreedyTail_NoTailSlices(g, block_start, n, max_chars) ==
    IF g.current_start >= n THEN Returned(g.spans)
    ELSE IF g.last_end > g.current_start
         THEN Returned(Append(g.spans, << block_start + g.current_start,
                                          block_start + g.last_end >>))
         ELSE FixedWidthSpans(block_start, g.current_start, n, max_chars)

\* The code after the loop: flush the last accepted boundary, then slice the
\* rest of the block into fixed-width windows.
GreedyTail(g, block_start, n, max_chars) ==
    IF g.current_start >= n THEN Returned(g.spans)
    ELSE LET flush == g.last_end > g.current_start
             flushed == IF flush
                        THEN Append(g.spans, << block_start + g.current_start,
                                                block_start + g.last_end >>)
                        ELSE g.spans
             from == IF flush THEN g.last_end ELSE g.current_start
         IN IF from >= n THEN Returned(flushed)
            ELSE Bind(FixedWidthSpans(block_start, from, n, max_chars),
                      LAMBDA tail : IF tail.raised THEN Raised
                                    ELSE Returned(flushed \o tail.spans))

SplitBlock(block_start, n, ends, max_chars) ==
    IF n <= max_chars THEN Returned(<< << block_start, block_start + n >> >>)
    ELSE IF ends = << >> THEN FixedWidthSpans(block_start, 0, n, max_chars)
    ELSE Bind(GreedyLoop(ends, 1,
                         [spans |-> << >>, current_start |-> 0, last_end |-> 0],
                         block_start, n, max_chars),
              LAMBDA g : GreedyTail(g, block_start, n, max_chars))

split_block_into_spans(block_start, block_text, max_chars) ==
    Bind(<< block_start, Len(block_text), sentence_end_positions(block_text),
            max_chars >>,
         LAMBDA a : SplitBlock(a[1], a[2], a[3], a[4]))

\* ------------------------------------------------------------------------
\* build_base_spans
\* pending is << >> (current_start is None) or << << current_start, current_end >> >>.
\* ------------------------------------------------------------------------

\* st holds the loop's variables: [raised, spans, pending].

\* A block that is not merged into the pending span: it opens a new pending
\* span when it fits and is split otherwise.
StartBlock(st, text, block, max_chars) ==
    IF block[2] - block[1] <= max_chars
    THEN [st EXCEPT !.pending = << block >>]
    ELSE Bind(split_block_into_spans(block[1], PySlice(text, block[1], block[2]),
                                     max_chars),
              LAMBDA pieces :
                 IF pieces.raised THEN [st EXCEPT !.raised = TRUE]
                 ELSE [st EXCEPT !.spans = @ \o pieces.spans, !.pending = << >>])

\* Mutant: the merge test looks at the block's own length, not at the width
\* from the pending span's start.
BuildStep_MergeByBlockLen(st, text, block, max_chars) ==
    IF st.pending = << >> THEN StartBlock(st, text, block, max_chars)
    ELSE IF block[2] - block[1] <= max_chars
         THEN [st EXCEPT !.pending = << << st.pending[1][1], block[2] >> >>]
         ELSE StartBlock([st EXCEPT !.spans = @ \o st.pending, !.pending = << >>],
                         text, block, max_chars)

\* Mutant: a block is merged only when the width stays below max_chars.
BuildStep_StrictMerge(st, text, block, max_chars) ==
    IF st.pending = << >> THEN StartBlock(st, text, block, max_chars)
    ELSE IF block[2] - st.pending[1][1] < max_chars
         THEN [st EXCEPT !.pending = << << st.pending[1][1], block[2] >> >>]
         ELSE StartBlock([st EXCEPT !.spans = @ \o st.pending, !.pending = << >>],
                         text, block, max_chars)

\* Mutant: an oversized block is split together with the span pending before it.
BuildStep_SplitFromPendingStart(st, text, block, max_chars) ==
    IF st.pending = << >> THEN StartBlock(st, text, block, max_chars)
    ELSE LET current_start == st.pending[1][1]
             potential_end == block[2]
         IN IF potential_end - current_start <= max_chars
            THEN [st EXCEPT !.pending = << << current_start, potential_end >> >>]
            ELSE IF block[2] - block[1] <= max_chars
                 THEN StartBlock([st EXCEPT !.spans = @ \o st.pending,
                                            !.pending = << >>],
                                 text, block, max_chars)
                 ELSE StartBlock([st EXCEPT !.pending = << >>], text,
                                 << current_start, potential_end >>, max_chars)

\* Mutant: the pending span is flushed at every block, nothing is merged.
BuildStep_NeverMerge(st, text, block, max_chars) ==
    StartBlock([st EXCEPT !.spans = @ \o st.pending, !.pending = << >>],
               text, block, max_chars)

\* One iteration of the loop over blocks.
BuildStep(st, text, block, max_chars) ==
    IF st.pending = << >> THEN StartBlock(st, text, block, max_chars)
    ELSE LET current_start == st.pending[1][1]
             potential_end == block[2]
         IN IF potential_end - current_start <= max_chars
            THEN [st EXCEPT !.pending = << << current_start, potential_end >> >>]
            ELSE StartBlock([st EXCEPT !.spans = @ \o st.pending,
                                       !.pending = << >>],
                            text, block, max_chars)

\* Mutant: the span still pending after the last block is not appended.
RECURSIVE BuildLoop_NoFinalFlush(_, _, _, _, _)
BuildLoop_NoFinalFlush(st, text, blocks, k, max_chars) ==
    IF st.raised THEN Raised
    ELSE IF k > Len(blocks) THEN Returned(st.spans)
    ELSE Bind(BuildStep(st, text, blocks[k], max_chars),
              LAMBDA st2 : BuildLoop_NoFinalFlush(st2, text, blocks, k + 1, max_chars))

\* The loop over blocks from its k-th element on, then the final flush.
RECURSIVE BuildLoop(_, _, _, _, _)
BuildLoop(st, text, blocks, k, max_chars) ==
    IF st.raised THEN Raised
    ELSE IF k > Len(blocks) THEN Returned(st.spans \o st.pending)
    ELSE Bind(BuildStep(st, text, blocks[k], max_chars),
              LAMBDA st2 : BuildLoop(st2, text, blocks, k + 1, max_chars))

build_base_spans(text, max_chars) ==
    Bind(<< text, paragraph_block_spans(text), max_chars >>,
         LAMBDA a : BuildLoop([raised |-> FALSE, spans |-> << >>, pending |-> << >>],
                              a[1], a[2], 1, a[3]))

\* ------------------------------------------------------------------------
\* apply_overlap
\* ------------------------------------------------------------------------
\* Mutant: the overlap is measured back from the span's own start.
OverlapSpans_FromOwnStart(spans, overlap_chars) ==
    [i \in 1..Len(spans) |->
        IF i = 1 THEN spans[1]
        ELSE << Max(0, spans[i][1] - overlap_chars), spans[i][2] >>]

\* Mutant: the whole window is shifted back, its end included.
OverlapSpans_ShiftWindow(spans, overlap_chars) ==
    [i \in 1..Len(spans) |->
        IF i = 1 THEN spans[1]
        ELSE LET adjusted_start == Min(Max(0, spans[i - 1][2] - overlap_chars),
                                       spans[i][1])
             IN << adjusted_start, spans[i][2] - (spans[i][1] - adjusted_start) >>]

OverlapSpans(spans, overlap_chars) ==
    [i \in 1..Len(spans) |->
        IF i = 1 THEN spans[1]
        ELSE LET prev_end == spans[i - 1][2]
                 overlap_start == Max(0, prev_end - overlap_chars)
                 adjusted_start == Min(overlap_start, spans[i][1])
             IN << adjusted_start, spans[i][2] >>]

\* Mutant: an overlap of one character is treated as none.
apply_overlap_OnlyAboveOne(spans, overlap_chars) ==
    IF spans = << >> \/ overlap_chars <= 1 THEN spans
    ELSE Bind(spans, LAMBDA s : OverlapSpans(s, overlap_chars))

apply_overlap(spans, overlap_chars) ==
    IF spans = << >> \/ overlap_chars <= 0 THEN spans
    ELSE Bind(spans, LAMBDA s : OverlapSpans(s, overlap_chars))

\* ------------------------------------------------------------------------
\* stable_chunk_id
\* ------------------------------------------------------------------------

\* str(n) for n >= 0
RECURSIVE Decimal(_)
Decimal(n) ==
    IF n < 10 THEN << DIGIT0 + n >>
    ELSE Decimal(n \div 10) \o << DIGIT0 + (n % 10) >>

\* Mutant: the index is left out of the digested string.
chunk_id_payload_NoIndex(meeting_key, chunk_index, text_slice) ==
    meeting_key \o << PIPE >> \o text_slice

\* Mutant: the three parts are joined without the '|' between them.
chunk_id_payload_NoSeparators(meeting_key, chunk_index, text_slice) ==
    meeting_key \o Decimal(chunk_index) \o text_slice

\* f"{meeting_key}|{chunk_index}|{text_slice}"
chunk_id_payload(meeting_key, chunk_index, text_slice) ==
    meeting_key \o << PIPE >> \o Decimal(chunk_index) \o << PIPE >> \o text_slice

\* hashlib.sha1(payload).hexdigest(): the digest is kept symbolic, a tagged
\* copy of the digested string, so that two identifiers are equal exactly
\* when the digested strings are (SHA-1 taken as collision-free).
sha1_hexdigest(payload) == << "sha1", payload >>

stable_chunk_id(meeting_key, chunk_index, text_slice) ==
    sha1_hexdigest(chunk_id_payload(meeting_key, chunk_index, text_slice))

\* ------------------------------------------------------------------------
\* chunk_text_from_normalized, chunk_text
\* A result is [raised, chunks].
\* ------------------------------------------------------------------------
\* Mutant: chunk_index counts from 1.
ChunkRecord_OneBased(record, idx, span, normalized) ==
    LET text_slice == PySlice(normalized, span[1], span[2])
    IN [meeting_key |-> record.meeting_key,
        date_ymd |-> record.date_ymd,
        meeting_name |-> record.meeting_name,
        chunk_index |-> idx + 1,
        chunk_id |-> stable_chunk_id(record.meeting_key, idx + 1, text_slice),
        char_start |-> span[1],
        char_end |-> span[2],
        text |-> text_slice]

ChunkRecord(record, idx, span, normalized) ==
    LET text_slice == PySlice(normalized, span[1], span[2])
    IN [meeting_key |-> record.meeting_key,
        date_ymd |-> record.date_ymd,
        meeting_name |-> record.meeting_name,
        chunk_index |-> idx,
        chunk_id |-> stable_chunk_id(record.meeting_key, idx, text_slice),
        char_start |-> span[1],
        char_end |-> span[2],
        text |-> text_slice]

\* base_spans = build_base_spans(...); spans = apply_overlap(base_spans, ...)
final_spans(normalized, max_chars, overlap_chars) ==
    Bind(build_base_spans(normalized, max_chars),
         LAMBDA base : IF base.raised THEN Raised
                       ELSE Returned(apply_overlap(base.spans, overlap_chars)))

\* The enumerate loop over the final spans.
materialize(record, normalized, fs) ==
    IF fs.raised THEN [raised |-> TRUE, chunks |-> << >>]
    ELSE [raised |-> FALSE,
          chunks |-> [i \in 1..Len(fs.spans) |->
                        ChunkRecord(record, i - 1, fs.spans[i], normalized)]]

\* Mutant: a non-positive max_chars is rejected before the text is looked at.
chunk_text_from_normalized_RejectFirst(record, normalized, max_chars, overlap_chars) ==
    IF max_chars <= 0 THEN [raised |-> TRUE, chunks |-> << >>]
    ELSE IF normalized = << >> THEN [raised |-> FALSE, chunks |-> << >>]
    ELSE Bind(<< record, normalized,
                 final_spans(normalized, max_chars, overlap_chars) >>,
              LAMBDA a : materialize(a[1], a[2], a[3]))

chunk_text_from_normalized(record, normalized, max_chars, overlap_chars) ==
    IF normalized = << >> THEN [raised |-> FALSE, chunks |-> << >>]
    ELSE Bind(<< record, normalized,
                 final_spans(normalized, max_chars, overlap_chars) >>,
              LAMBDA a : materialize(a[1], a[2], a[3]))

chunk_text(record, max_chars, overlap_chars) ==
    Bind(normalize_text(record.transcript),
         LAMBDA normalized : chunk_text_from_normalized(record, normalized,
                                                        max_chars, overlap_chars))

\* ------------------------------------------------------------------------
\* io: the record source. A csv.DictReader row is [fieldnames, cells]: the
\* header of its file and the cells of its line; None stands for Python's
\* None.
\* ------------------------------------------------------------------------
None == << -1 >>

\* bool(v) for v a str or None
Truthy(v) == v # None /\ v # << >>

COL_CONTENT == << 99, 111, 110, 116, 101, 110, 116 >>
COL_CONTENT_CLEAN == << 99, 111, 110, 116, 101, 110, 116, 95, 99, 108, 101, 97, 110 >>
COL_NAME == << 110, 97, 109, 101 >>
COL_MEETING_KEY == << 109, 101, 101, 116, 105, 110, 103, 95, 107, 101, 121 >>

\* date_fields of extract_date_ymd, in order: date_ymd, date, createdTime,
\* created_time, created_at, start_time, startTime, meeting_date.
date_fields ==
    << << 100, 97, 116, 101, 95, 121, 109, 100 >>,
       << 100, 97, 116, 101 >>,
       << 99, 114, 101, 97, 116, 101, 100, 84, 105, 109, 101 >>,
       << 99, 114, 101, 97, 116, 101, 100, 95, 116, 105, 109, 101 >>,
       << 99, 114, 101, 97, 116, 101, 100, 95, 97, 116 >>,
       << 115, 116, 97, 114, 116, 95, 116, 105, 109, 101 >>,
       << 115, 116, 97, 114, 116, 84, 105, 109, 101 >>,
       << 109, 101, 101, 116, 105, 110, 103, 95, 100, 97, 116, 101 >> >>

\* The dict csv.DictReader builds for a line: dict(zip(fieldnames, cells)),
\* the fields the line is too short for set to None.
RowDict(fieldnames, cells) == [fieldnames |-> fieldnames, cells |-> cells]

\* row.get(key)
Get(row, key) ==
    LET js == {j \in 1..Len(row.fieldnames) : row.fieldnames[j] = key}
    IN IF js = {} THEN None
       ELSE IF SetMax(js) <= Len(row.cells) THEN row.cells[SetMax(js)] ELSE None

\* fieldnames is << >> both for None (a file without a header line) and for
\* an empty list: `not fieldnames` holds of both.
has_transcript_columns(fieldnames) ==
    IF fieldnames = << >> THEN FALSE
    ELSE LET fields == {Strip(fieldnames[j]) :
                           j \in {k \in 1..Len(fieldnames) : fieldnames[k] # << >>}}
         IN COL_CONTENT \in fields \/ COL_CONTENT_CLEAN \in fields

\* Mutant: content is preferred to content_clean.
select_transcript_PreferContent(row) ==
    IF Truthy(Get(row, COL_CONTENT)) THEN Get(row, COL_CONTENT)
    ELSE IF Truthy(Get(row, COL_CONTENT_CLEAN)) THEN Get(row, COL_CONTENT_CLEAN)
    ELSE << >>

select_transcript(row) ==
    IF Truthy(Get(row, COL_CONTENT_CLEAN)) THEN Get(row, COL_CONTENT_CLEAN)
    ELSE IF Truthy(Get(row, COL_CONTENT)) THEN Get(row, COL_CONTENT)
    ELSE << >>

\* The regex class \d, restricted to the ASCII and the Arabic-Indic digits.
IsDigit(c) == c \in DIGIT0..(DIGIT0 + 9) \/ c \in ARABIC_INDIC_ZERO..(ARABIC_INDIC_ZERO + 9)

DigitValue(c) == IF c >= ARABIC_INDIC_ZERO THEN c - ARABIC_INDIC_ZERO ELSE c - DIGIT0

\* int(digits) for one or two digits
IntOf(digits) ==
    IF Len(digits) = 1 THEN DigitValue(digits[1])
    ELSE 10 * DigitValue(digits[1]) + DigitValue(digits[2])

\* f"{n:02d}" for 0 <= n <= 99
TwoDigits(n) == IF n < 10 THEN << DIGIT0, DIGIT0 + n >> ELSE Decimal(n)

\* f"{year}-{int(month):02d}-{int(day):02d}"
FormatDate(year, month, day) ==
    year \o << HYPHEN >> \o TwoDigits(IntOf(month)) \o << HYPHEN >> \o TwoDigits(IntOf(day))

DateSeparators == {DOT, SLASH, HYPHEN}

\* v has a digit at 0-based offset q
DigitAt(v, q) == q >= 0 /\ q < Len(v) /\ IsDigit(v[q + 1])

\* Length of the match of the greedy \d{1,2} at offset q (0: no match).
DigitsTaken(v, q) == IF DigitAt(v, q) /\ DigitAt(v, q + 1) THEN 2
                     ELSE IF DigitAt(v, q) THEN 1 ELSE 0

\* The match of (\d{4})[./-](\d{1,2})[./-](\d{1,2}) that starts at offset i,
\* formatted, or << >> when the pattern does not match there.
NumericDateAt(v, i) ==
    IF ~(/\ \A k \in 0..3 : DigitAt(v, i + k)
         /\ i + 4 < Len(v) /\ v[i + 5] \in DateSeparators)
    THEN << >>
    ELSE LET m == DigitsTaken(v, i + 5)
             sep == i + 5 + m
             d == DigitsTaken(v, sep + 1)
         IN IF m > 0 /\ sep < Len(v) /\ v[sep + 1] \in DateSeparators /\ d > 0
            THEN FormatDate(SubSeq(v, i + 1, i + 4), SubSeq(v, i + 6, i + 5 + m),
                            SubSeq(v, sep + 2, sep + 1 + d))
            ELSE << >>

\* The match of (\d{4})\s*년\s*(\d{1,2})\s*월\s*(\d{1,2})\s*일 that starts
\* at offset i, formatted, or << >>.
KoreanDateAt(v, i) ==
    IF ~(\A k \in 0..3 : DigitAt(v, i + k)) THEN << >>
    ELSE LET nyeon == WhitespaceRunEnd(v, i + 4)
             month == WhitespaceRunEnd(v, nyeon + 1)
             m == DigitsTaken(v, month)
             wol == WhitespaceRunEnd(v, month + m)
             day == WhitespaceRunEnd(v, wol + 1)
             d == DigitsTaken(v, day)
             il == WhitespaceRunEnd(v, day + d)
         IN IF /\ nyeon < Len(v) /\ v[nyeon + 1] = HANGUL_NYEON
               /\ m > 0
               /\ wol < Len(v) /\ v[wol + 1] = HANGUL_WOL
               /\ d > 0
               /\ il < Len(v) /\ v[il + 1] = HANGUL_IL
            THEN FormatDate(SubSeq(v, i + 1, i + 4), SubSeq(v, month + 1, month + m),
                            SubSeq(v, day + 1, day + d))
            ELSE << >>

SetMin(S) == CHOOSE m \in S : \A x \in S : m <= x

\* re.search for the first pattern: the match at the leftmost offset,
\* formatted, or << >>.
SearchNumericDate(v) ==
    LET hits == {i \in 0..(Len(v) - 1) : NumericDateAt(v, i) # << >>}
    IN IF hits = {} THEN << >> ELSE NumericDateAt(v, SetMin(hits))

\* re.search for the second pattern.
SearchKoreanDate(v) ==
    LET hits == {i \in 0..(Len(v) - 1) : KoreanDateAt(v, i) # << >>}
    IN IF hits = {} THEN << >> ELSE KoreanDateAt(v, SetMin(hits))

\* value[:50]
DateWindow == 50

normalize_date_string(value) ==
    IF ~Truthy(value) THEN << >>
    ELSE LET v == PySlice(Strip(value), 0, DateWindow)
         IN IF SearchNumericDate(v) # << >> THEN SearchNumericDate(v)
            ELSE IF SearchKoreanDate(v) # << >> THEN SearchKoreanDate(v)
            ELSE IF Len(v) >= 10 /\ v[5] = HYPHEN /\ v[8] = HYPHEN
                 THEN PySlice(v, 0, 10)
                 ELSE << >>

\* The loop over date_fields from its k-th field on, then the meeting name.
RECURSIVE DateFromFields(_, _, _)
DateFromFields(row, meeting_name, k) ==
    IF k > Len(date_fields) THEN normalize_date_string(meeting_name)
    ELSE IF /\ Truthy(Get(row, date_fields[k]))
            /\ normalize_date_string(Get(row, date_fields[k])) # << >>
         THEN normalize_date_string(Get(row, date_fields[k]))
         ELSE DateFromFields(row, meeting_name, k + 1)

extract_date_ymd(row, meeting_name) == DateFromFields(row, meeting_name, 1)

\* hexdigest()[:12]
KeyDigestLen == 12

\* hashlib.sha1(payload).hexdigest()[:12], kept symbolic like sha1_hexdigest.
sha1_hexdigest_prefix(payload) == << "sha1", KeyDigestLen, payload >>

compute_meeting_key(row, meeting_name, date_ymd, row_index) ==
    IF Truthy(Get(row, COL_MEETING_KEY)) THEN Get(row, COL_MEETING_KEY)
    ELSE sha1_hexdigest_prefix(meeting_name \o << PIPE >> \o date_ymd \o << PIPE >>
                               \o Decimal(row_index))

\* (row.get("name") or "").strip()
meeting_name_of(row) ==
    Strip(IF Truthy(Get(row, COL_NAME)) THEN Get(row, COL_NAME) ELSE << >>)

\* MeetingRecord(...) as iter_meeting_records builds it for a row.
SourcedMeetingRecord(path, row, row_index) ==
    LET meeting_name == meeting_name_of(row)
        date_ymd == extract_date_ymd(row, meeting_name)
    IN [meeting_key |-> compute_meeting_key(row, meeting_name, date_ymd, row_index),
        date_ymd |-> date_ymd,
        meeting_name |-> meeting_name,
        row_index |-> row_index,
        transcript |-> select_transcript(row),
        source_file |-> path]

\* ------------------------------------------------------------------------
\* Bounds and input domains.
\* ------------------------------------------------------------------------
MaxRawCore == 4
MaxTextLen == 7
MaxMaxChars == 4
MaxOverlap == 2
MaxRecords == 2
MaxKeyLen == 2
MaxIndex == 11
MaxSliceLen == 2
MaxBlockLen == 7
MaxBlockStart == 3
MaxParaLen == 7
MaxRows == 2

\* All strings over the alphabet of length at most n.
Strings(alphabet, n) == UNION {[1..k -> alphabet] : k \in 0..n}

\* Raw transcripts: a core of escapes, real line endings, tabs and byte-order
\* marks, alone or between letters (so that the final trim does not remove
\* the line endings of the core).
RawAlphabet == {BACKSLASH, LETTER_R, LETTER_N, CR, LF, TAB, BOM}
RawEdges == {<< >>, << LETTER_N >>}
RawTexts == {p \o c \o q : p \in RawEdges, q \in RawEdges,
                           c \in Strings(RawAlphabet, MaxRawCore)}

\* Normalized texts: words, sentence ends, spaces and newlines.
TextAlphabet == {LETTER_A, DOT, SP, LF}
NormalizedTexts == {t \in Strings(TextAlphabet, MaxTextLen) : normalize_text(t) = t}

\* Texts handed to paragraph_block_spans: words, spaces and newlines in any
\* arrangement (the function does not require a normalized text).
ParaAlphabet == {LETTER_A, SP, LF}
ParaTexts == Strings(ParaAlphabet, MaxParaLen)

\* max_chars as a caller can pass it, the non-positive budgets included.
Budgets == {-1, 0} \cup 1..MaxMaxChars
Overlaps == 0..MaxOverlap

MeetingRecord(key, date, name, row, transcript) ==
    [meeting_key |-> key, date_ymd |-> date, meeting_name |-> name,
     row_index |-> row, transcript |-> transcript]

NoRecord == MeetingRecord(<< >>, "", "", 0, << >>)

\* Records offered to iter_chunk_records: an empty transcript, one that is
\* only whitespace, one that is only an escape, two paragraphs, two sentences.
StreamRecords ==
    { MeetingRecord(<< LETTER_B >>, "2026-02-02", "Meeting", 0, << >>),
      MeetingRecord(<< LETTER_B >>, "2026-02-02", "Meeting", 1, << TAB, LF >>),
      MeetingRecord(<< LETTER_N >>, "", "Sync", 0, << BACKSLASH, LETTER_N >>),
      MeetingRecord(<< LETTER_N >>, "", "Sync", 1,
                    << LETTER_A, LF, CR, LF, LETTER_A >>),
      MeetingRecord(<< LETTER_R >>, "2026-02-03", "Retro", 0,
                    << LETTER_A, DOT, SP, LETTER_A, DOT >>) }

IdKeys == Strings({LETTER_B, PIPE, DIGIT0}, MaxKeyLen)

\* Blocks handed to split_block_into_spans: words, sentence ends and spaces.
BlockAlphabet == {LETTER_A, DOT, SP}
BlockTexts == Strings(BlockAlphabet, MaxBlockLen)
BlockStarts == {0, MaxBlockStart}
IdSlices == Strings({LETTER_A, PIPE, DIGIT0}, MaxSliceLen)

\* A path is [is_file, name, fieldnames, rows]: whether it names a file, and
\* for a file the header and the lines csv.DictReader reads from it
\* (fieldnames is << >> for a file without a header line).
CsvFile(name, fieldnames, rows) ==
    [is_file |-> TRUE, name |-> name, fieldnames |-> fieldnames, rows |-> rows]

MissingPath == [is_file |-> FALSE, name |-> "missing.csv", fieldnames |-> << >>,
                rows |-> << >>]

SourceCells == {<< >>, << LETTER_A >>, << SP >>}

\* Headers with content, with content_clean, with a content column whose
\* name has a leading space, and without any transcript column.
SourceHeaders ==
    { << COL_CONTENT >>,
      << COL_NAME, COL_CONTENT >>,
      << COL_CONTENT_CLEAN, COL_CONTENT >>,
      << << SP >> \o COL_CONTENT, COL_CONTENT >>,
      << << SP >> \o COL_CONTENT, COL_NAME >>,
      << COL_NAME, COL_MEETING_KEY >> }

\* The lines of a file with header h: one cell per column, or fewer.
SourceLines(h) == UNION {[1..k -> SourceCells] : k \in 1..Len(h)}

SourceFiles ==
    UNION {{CsvFile("b.csv", h, r) :
               r \in UNION {[1..n -> SourceLines(h)] : n \in 0..MaxRows}} :
           h \in SourceHeaders}

\* Paths that come first: no file, a file without a header, a file with
\* key, name and date columns, and a file whose date cells are a timestamp
\* and a text with hyphens at the offsets 4 and 7.
LeadPaths ==
    { MissingPath,
      CsvFile("empty.csv", << >>, << >>),
      CsvFile("a.csv",
              << COL_MEETING_KEY, COL_NAME, date_fields[2], COL_CONTENT >>,
              << << << LETTER_B >>, << SP, LETTER_A, SP >>,
                    << 50, 48, 50, 52, 45, 49, 45, 50 >>, << LETTER_A >> >>,
                 << << >>, << >>, << >>, << >> >>,
                 << << >>, << LETTER_A >>, << LETTER_A >>, << LETTER_A, SP >> >> >>),
      CsvFile("c.csv",
              << date_fields[1], COL_CONTENT >>,
              << << << 50, 48, 50, 52, 45, 48, 49, 45, 48, 50, 84, 48, 57 >>,
                    << LETTER_A >> >>,
                 << << LETTER_A, LETTER_A, LETTER_A, LETTER_A, HYPHEN, LETTER_A,
                       LETTER_A, HYPHEN, LETTER_A, LETTER_A, LETTER_A >>,
                    << LETTER_A >> >> >>) }

SourcePaths ==
    {<< >>} \cup {<< f >> : f \in SourceFiles \cup LeadPaths}
            \cup {<< g, f >> : g \in LeadPaths, f \in SourceFiles}

\* ------------------------------------------------------------------------
\* State.
\* ------------------------------------------------------------------------
VARIABLES
    pc,             \* position of the call or of the generator
    raw,            \* normalize_text: its argument
    normalized,     \* normalize_text: its result; the chunker's normalized text
    renormalized,   \* normalize_text: its result for its own result
    record,         \* the MeetingRecord being chunked
    max_chars,
    overlap_chars,
    base_spans,     \* chunk_text_from_normalized: local base_spans
    spans,          \* chunk_text_from_normalized: local spans
    chunks,         \* chunk_text_from_normalized: the list returned
    id_args,        \* stable_chunk_id: << meeting_key, chunk_index, text_slice >>
    chunk_id,       \* stable_chunk_id: its result
    records,        \* iter_chunk_records: the records iterable
    cursor,         \* iter_chunk_records: records taken so far
    current,        \* iter_chunk_records: chunk_text's list for the record taken
    inner,          \* iter_chunk_records: chunks of current yielded so far
    emitted,        \* everything the generator has yielded, in order
    block_start,    \* split_block_into_spans: its arguments
    block_text,
    ends,           \* split_block_into_spans: local ends
    end_idx,        \* position of the loop over ends (ends consumed so far)
    split_state,    \* locals [spans, current_start, last_end] of the loop
    split_spans,    \* split_block_into_spans: the list returned
    paths,          \* iter_meeting_records: the paths iterable (the files)
    path_idx,       \* paths taken so far
    row_idx,        \* rows of the open file read so far
    yielded,        \* everything iter_meeting_records has yielded, in order
    para_text,      \* paragraph_block_spans: its argument
    blocks          \* paragraph_block_spans: the list returned

vars == << pc, raw, normalized, record, max_chars, overlap_chars, base_spans,
           spans, chunks, id_args, chunk_id, records, cursor, current, inner,
           emitted, block_start, block_text, ends, end_idx, split_state,
           split_spans, paths, path_idx, row_idx, yielded, renormalized,
           para_text, blocks >>

normalize_vars == << raw, normalized, renormalized >>
chunk_vars == << record, base_spans, spans, chunks >>
param_vars == << max_chars, overlap_chars >>
id_vars == << id_args, chunk_id >>
stream_vars == << records, cursor, current, inner, emitted >>
split_vars == << block_start, block_text, ends, end_idx, split_state, split_spans >>
source_vars == << paths, path_idx, row_idx, yielded >>
block_vars == << para_text, blocks >>

NormalizeIdle == raw = << >> /\ normalized = << >> /\ renormalized = << >>
ChunkIdle == record = NoRecord /\ base_spans = << >> /\ spans = << >> /\ chunks = << >>
ParamIdle == max_chars = 1 /\ overlap_chars = 0
IdIdle == id_args = << << >>, 0, << >> >> /\ chunk_id = << >>
StreamIdle == /\ records = << >> /\ cursor = 0 /\ current = << >>
              /\ inner = 0 /\ emitted = << >>
SplitStart == [spans |-> << >>, current_start |-> 0, last_end |-> 0]
SplitIdle == /\ block_start = 0 /\ block_text = << >> /\ ends = << >>
             /\ end_idx = 0 /\ split_state = SplitStart /\ split_spans = << >>
SourceIdle == paths = << >> /\ path_idx = 0 /\ row_idx = 0 /\ yielded = << >>
BlocksIdle == para_text = << >> /\ blocks = << >>

\* ------------------------------------------------------------------------
\* normalize_text(raw)
\* ------------------------------------------------------------------------
InitNormalize ==
    /\ BlocksIdle
    /\ pc = "call"
    /\ raw \in RawTexts
    /\ normalized = << >>
    /\ renormalized = << >>
    /\ ChunkIdle /\ ParamIdle /\ IdIdle /\ StreamIdle /\ SplitIdle /\ SourceIdle

NormalizeText ==
    /\ pc = "call"
    /\ normalized' = normalize_text(raw)
    /\ pc' = "return"
    /\ UNCHANGED << raw, renormalized, chunk_vars, param_vars, block_vars, id_vars,
                    stream_vars, split_vars, source_vars >>

\* The caller passes the result to normalize_text again.
NormalizeAgain ==
    /\ pc = "return"
    /\ renormalized' = normalize_text(normalized)
    /\ pc' = "again"
    /\ UNCHANGED << raw, normalized, chunk_vars, param_vars, block_vars, id_vars,
                    stream_vars, split_vars, source_vars >>

NextNormalize == NormalizeText \/ NormalizeAgain

SpecNormalize == InitNormalize /\ [][NextNormalize]_vars

\* ------------------------------------------------------------------------
\* paragraph_block_spans(para_text)
\* ------------------------------------------------------------------------
InitBlocks ==
    /\ pc = "call"
    /\ para_text \in ParaTexts
    /\ blocks = << >>
    /\ NormalizeIdle /\ ChunkIdle /\ ParamIdle /\ IdIdle /\ StreamIdle /\ SplitIdle
    /\ SourceIdle

ParagraphBlockSpans ==
    /\ pc = "call"
    /\ blocks' = paragraph_block_spans(para_text)
    /\ pc' = "return"
    /\ UNCHANGED << para_text, normalize_vars, chunk_vars, param_vars, id_vars,
                    stream_vars, split_vars, source_vars >>

NextBlocks == ParagraphBlockSpans

SpecBlocks == InitBlocks /\ [][NextBlocks]_vars

\* ------------------------------------------------------------------------
\* chunk_text_from_normalized(record, normalized, max_chars, overlap_chars)
\* ------------------------------------------------------------------------
InitChunk ==
    /\ BlocksIdle
    /\ pc = "call"
    /\ raw = << >>
    /\ normalized \in NormalizedTexts
    /\ renormalized = << >>
    /\ record = MeetingRecord(<< LETTER_B >>, "2026-02-02", "Meeting", 0, normalized)
    /\ max_chars \in Budgets
    /\ overlap_chars \in Overlaps
    /\ base_spans = << >> /\ spans = << >> /\ chunks = << >>
    /\ IdIdle /\ StreamIdle /\ SplitIdle /\ SourceIdle

ChunkTextFromNormalized ==
    /\ pc = "call"
    /\ \E base \in {IF normalized = << >> THEN Returned(<< >>)
                    ELSE build_base_spans(normalized, max_chars)},
          result \in {chunk_text_from_normalized(record, normalized, max_chars,
                                                 overlap_chars)} :
          /\ pc' = IF result.raised THEN "raise" ELSE "return"
          /\ base_spans' = base.spans
          /\ spans' = apply_overlap(base.spans, overlap_chars)
          /\ chunks' = result.chunks
    /\ UNCHANGED << normalize_vars, record, param_vars, block_vars,
                    id_vars, stream_vars,
                    split_vars, source_vars >>

NextChunk == ChunkTextFromNormalized

SpecChunk == InitChunk /\ [][NextChunk]_vars

\* ------------------------------------------------------------------------
\* stable_chunk_id(meeting_key, chunk_index, text_slice)
\* ------------------------------------------------------------------------
InitId ==
    /\ BlocksIdle
    /\ pc = "call"
    /\ id_args \in IdKeys \X (0..MaxIndex) \X IdSlices
    /\ chunk_id = << >>
    /\ NormalizeIdle /\ ChunkIdle /\ ParamIdle /\ StreamIdle /\ SplitIdle /\ SourceIdle

StableChunkId ==
    /\ pc = "call"
    /\ chunk_id' = stable_chunk_id(id_args[1], id_args[2], id_args[3])
    /\ pc' = "return"
    /\ UNCHANGED << normalize_vars, chunk_vars, param_vars, block_vars,
                    id_args, stream_vars,
                    split_vars, source_vars >>

NextId == StableChunkId

SpecId == InitId /\ [][NextId]_vars

\* ------------------------------------------------------------------------
\* split_block_into_spans(block_start, block_text, max_chars), one step per
\* iteration of its loop over ends. pc is "call" before the call, "loop" at
\* the head of the loop, "return" or "raise" after the call.
\* ------------------------------------------------------------------------
InitSplit ==
    /\ BlocksIdle
    /\ pc = "call"
    /\ block_start \in BlockStarts
    /\ block_text \in BlockTexts
    /\ max_chars \in Budgets
    /\ overlap_chars = 0
    /\ ends = << >> /\ end_idx = 0 /\ split_state = SplitStart /\ split_spans = << >>
    /\ NormalizeIdle /\ ChunkIdle /\ IdIdle /\ StreamIdle /\ SourceIdle

\* Lines 43-53: the early return, the fixed-width fallback, or the loop's entry.
SplitEnter ==
    /\ pc = "call"
    /\ \E found \in {sentence_end_positions(block_text)} :
          IF Len(block_text) <= max_chars \/ found = << >>
          THEN \E result \in {SplitBlock(block_start, Len(block_text), found,
                                         max_chars)} :
                  /\ pc' = IF result.raised THEN "raise" ELSE "return"
                  /\ split_spans' = result.spans
                  /\ ends' = IF Len(block_text) <= max_chars THEN << >> ELSE found
                  /\ UNCHANGED << end_idx, split_state >>
          ELSE /\ pc' = "loop"
               /\ ends' = found
               /\ end_idx' = 0
               /\ split_state' = SplitStart
               /\ UNCHANGED split_spans
    /\ UNCHANGED << normalize_vars, chunk_vars, param_vars, block_vars,
                    id_vars, stream_vars,
                    block_start, block_text, source_vars >>

\* Lines 55-71: one iteration of the loop over ends.
SplitLoopStep ==
    /\ pc = "loop"
    /\ end_idx < Len(ends)
    /\ split_state' = GreedyStep(split_state, ends[end_idx + 1], block_start,
                                 Len(block_text), max_chars)
    /\ end_idx' = end_idx + 1
    /\ UNCHANGED << pc, normalize_vars, chunk_vars, param_vars, block_vars,
                    id_vars, stream_vars,
                    block_start, block_text, ends, split_spans, source_vars >>

\* Lines 73-80: the code after the loop and the return.
SplitTail ==
    /\ pc = "loop"
    /\ end_idx = Len(ends)
    /\ \E result \in {GreedyTail(split_state, block_start, Len(block_text),
                                  max_chars)} :
          /\ pc' = IF result.raised THEN "raise" ELSE "return"
          /\ split_spans' = result.spans
    /\ UNCHANGED << normalize_vars, chunk_vars, param_vars, block_vars,
                    id_vars, stream_vars,
                    block_start, block_text, ends, end_idx, split_state,
                    source_vars >>

NextSplit == SplitEnter \/ SplitLoopStep \/ SplitTail

SpecSplit == InitSplit /\ [][NextSplit]_vars

\* ------------------------------------------------------------------------
\* iter_meeting_records(paths): the generator. pc is "for" at the head of
\* the loop over paths, "rows" at the head of the loop over the rows of the
\* open file, "done" after StopIteration.
\* ------------------------------------------------------------------------
InitSource ==
    /\ BlocksIdle
    /\ pc = "for"
    /\ paths \in SourcePaths
    /\ path_idx = 0 /\ row_idx = 0 /\ yielded = << >>
    /\ NormalizeIdle /\ ChunkIdle /\ ParamIdle /\ IdIdle /\ StreamIdle /\ SplitIdle

\* Lines 106-112: the next path is taken; it is skipped when it is not a
\* file or its header has no transcript column.
OpenPath ==
    /\ pc = "for"
    /\ path_idx < Len(paths)
    /\ path_idx' = path_idx + 1
    /\ row_idx' = 0
    /\ pc' = IF /\ paths[path_idx + 1].is_file
                /\ has_transcript_columns(paths[path_idx + 1].fieldnames)
             THEN "rows" ELSE "for"
    /\ UNCHANGED << normalize_vars, chunk_vars, param_vars, block_vars,
                    id_vars, stream_vars,
                    split_vars, paths, yielded >>

\* Mutant: row_index counts the rows yielded from the file, not the rows read.
ReadRow_IndexAmongYielded ==
    /\ pc = "rows"
    /\ row_idx < Len(paths[path_idx].rows)
    /\ LET file == paths[path_idx]
           row == RowDict(file.fieldnames, file.rows[row_idx + 1])
           seen == {k \in 1..row_idx :
                      select_transcript(RowDict(file.fieldnames, file.rows[k])) # << >>}
       IN yielded' = IF select_transcript(row) = << >> THEN yielded
                     ELSE Append(yielded,
                                 SourcedMeetingRecord(file.name, row, Cardinality(seen)))
    /\ row_idx' = row_idx + 1
    /\ UNCHANGED << pc, normalize_vars, chunk_vars, param_vars, block_vars,
                    id_vars, stream_vars,
                    split_vars, paths, path_idx >>

\* Lines 113-127: the next row of the open file is read; it is skipped when
\* its transcript is empty and yielded as a MeetingRecord otherwise.
ReadRow ==
    /\ pc = "rows"
    /\ row_idx < Len(paths[path_idx].rows)
    /\ LET file == paths[path_idx]
           row == RowDict(file.fieldnames, file.rows[row_idx + 1])
       IN yielded' = IF select_transcript(row) = << >> THEN yielded
                     ELSE Append(yielded, SourcedMeetingRecord(file.name, row, row_idx))
    /\ row_idx' = row_idx + 1
    /\ UNCHANGED << pc, normalize_vars, chunk_vars, param_vars, block_vars,
                    id_vars, stream_vars,
                    split_vars, paths, path_idx >>

\* The reader is exhausted: back to the loop over paths.
CloseFile ==
    /\ pc = "rows"
    /\ row_idx = Len(paths[path_idx].rows)
    /\ pc' = "for"
    /\ UNCHANGED << normalize_vars, chunk_vars, param_vars, block_vars,
                    id_vars, stream_vars,
                    split_vars, source_vars >>

\* paths is exhausted: the generator returns.
SourceExhausted ==
    /\ pc = "for"
    /\ path_idx = Len(paths)
    /\ pc' = "done"
    /\ UNCHANGED << normalize_vars, chunk_vars, param_vars, block_vars,
                    id_vars, stream_vars,
                    split_vars, source_vars >>

NextSource == OpenPath \/ ReadRow \/ CloseFile \/ SourceExhausted

SpecSource == InitSource /\ [][NextSource]_vars

\* ------------------------------------------------------------------------
\* iter_chunk_records(records, max_chars, overlap_chars): the generator.
\* pc is "for" at the head of the outer loop, "yield" inside the inner loop,
\* "done" after StopIteration and "raise" when chunk_text raised.
\* ------------------------------------------------------------------------
Init ==
    /\ BlocksIdle
    /\ pc = "for"
    /\ records \in UNION {[1..n -> StreamRecords] : n \in 0..MaxRecords}
    /\ max_chars \in Budgets
    /\ overlap_chars \in Overlaps
    /\ cursor = 0 /\ current = << >> /\ inner = 0 /\ emitted = << >>
    /\ NormalizeIdle /\ ChunkIdle /\ IdIdle /\ SplitIdle /\ SourceIdle

\* Mutant: the generator returns at the first record that gives no chunks.
TakeRecord_StopOnEmpty ==
    /\ pc = "for"
    /\ cursor < Len(records)
    /\ \E result \in {chunk_text(records[cursor + 1], max_chars, overlap_chars)} :
          /\ record' = records[cursor + 1]
          /\ cursor' = cursor + 1
          /\ current' = result.chunks
          /\ inner' = 0
          /\ pc' = IF result.raised THEN "raise"
                   ELSE IF result.chunks = << >> THEN "done" ELSE "yield"
    /\ UNCHANGED << normalize_vars, base_spans, spans, chunks, param_vars, block_vars,
                    id_vars, records, emitted, split_vars, source_vars >>

\* for record in records: ... chunk_text(record, max_chars, overlap_chars)
TakeRecord ==
    /\ pc = "for"
    /\ cursor < Len(records)
    /\ \E result \in {chunk_text(records[cursor + 1], max_chars, overlap_chars)} :
          /\ record' = records[cursor + 1]
          /\ cursor' = cursor + 1
          /\ current' = result.chunks
          /\ inner' = 0
          /\ pc' = IF result.raised THEN "raise"
                   ELSE IF result.chunks = << >> THEN "for" ELSE "yield"
    /\ UNCHANGED << normalize_vars, base_spans, spans, chunks, param_vars, block_vars,
                    id_vars, records, emitted, split_vars, source_vars >>

\* Mutant: after a chunk is yielded control goes back to the outer loop.
YieldChunk_BackToOuterLoop ==
    /\ pc = "yield"
    /\ emitted' = Append(emitted, current[inner + 1])
    /\ inner' = inner + 1
    /\ pc' = "for"
    /\ UNCHANGED << normalize_vars, chunk_vars, param_vars, block_vars,
                    id_vars, records,
                    cursor, current, split_vars, source_vars >>

\* for chunk in ...: yield chunk
YieldChunk ==
    /\ pc = "yield"
    /\ emitted' = Append(emitted, current[inner + 1])
    /\ inner' = inner + 1
    /\ pc' = IF inner + 1 < Len(current) THEN "yield" ELSE "for"
    /\ UNCHANGED << normalize_vars, chunk_vars, param_vars, block_vars,
                    id_vars, records,
                    cursor, current, split_vars, source_vars >>

\* records is exhausted: the generator returns.
StopIteration ==
    /\ pc = "for"
    /\ cursor = Len(records)
    /\ pc' = "done"
    /\ UNCHANGED << normalize_vars, chunk_vars, param_vars, block_vars,
                    id_vars, stream_vars,
                    split_vars, source_vars >>

Next == TakeRecord \/ YieldChunk \/ StopIteration

Spec == Init /\ [][Next]_vars

\* The generator driven by a consumer that keeps asking for the next chunk:
\* resumed at a yield or at the exhausted source, the generator completes
\* that step. Nothing is assumed of the step that waits for the source to
\* produce a record.
SpecConsumed == Spec /\ WF_vars(YieldChunk) /\ WF_vars(StopIteration)

\* ========================================================================
\* Properties.
\* ========================================================================
Returns == pc = "return"

\* The chunk texts joined in order.
RECURSIVE JoinTexts(_)
JoinTexts(cs) == IF cs = << >> THEN << >> ELSE Head(cs).text \o JoinTexts(Tail(cs))

\* A blank-line separator: whitespace only, beginning and ending with a newline.
IsSeparator(gap) ==
    /\ Len(gap) >= 2
    /\ gap[1] = LF
    /\ gap[Len(gap)] = LF
    /\ \A k \in 1..Len(gap) : IsSpace(gap[k])

SpansAnchored ==
    IF chunks = << >> THEN normalized = << >>
    ELSE chunks[1].char_start = 0 /\ chunks[Len(chunks)].char_end = Len(normalized)

\* C1: with overlap_chars = 0 and max_chars >= 1 the chunk spans
\* are contiguous from 0 to len(text), each starting exactly where the
\* previous one ends, and the chunk texts concatenate to the normalized text.
C1_SpansContiguous ==
    (Returns /\ max_chars >= 1 /\ overlap_chars = 0) =>
        /\ SpansAnchored
        /\ \A i \in 2..Len(chunks) : chunks[i].char_start = chunks[i - 1].char_end
        /\ JoinTexts(chunks) = normalized

\* C2: for max_chars >= 1 every span of build_base_spans is at most max_chars
\* wide, the pieces of an oversized paragraph block included.
C2_BudgetRespected ==
    (Returns /\ max_chars >= 1) =>
        \A i \in 1..Len(base_spans) : base_spans[i][2] - base_spans[i][1] <= max_chars

\* A second paragraph that is oversized, has sentence ends and was split.
C2_Witness ==
    /\ Returns /\ max_chars >= 2
    /\ Len(paragraph_block_spans(normalized)) = 2
    /\ LET block == paragraph_block_spans(normalized)[2]
       IN /\ block[2] - block[1] > max_chars
          /\ sentence_end_positions(PySlice(normalized, block[1], block[2])) # << >>
    /\ Len(base_spans) >= 3

\* C3: for overlap_chars = K > 0 and at least two chunks, every chunk after
\* the first starts no later than the previous chunk's end and no earlier
\* than K characters before it.
C3_OverlapMonotonic ==
    (Returns /\ max_chars >= 1 /\ overlap_chars > 0 /\ Len(chunks) >= 2) =>
        \A i \in 2..Len(chunks) :
           /\ chunks[i].char_start <= chunks[i - 1].char_end
           /\ chunks[i].char_start >= chunks[i - 1].char_end - overlap_chars

\* Overlap pulled a start back across a separator gap.
C3_Witness ==
    /\ Returns /\ max_chars >= 1 /\ overlap_chars > 0
    /\ \E i \in 2..Len(chunks) :
          /\ base_spans[i][1] > base_spans[i - 1][2]
          /\ chunks[i].char_start < base_spans[i - 1][2]

\* C10: one chunk record per final span, in span order, the k-th (0-based)
\* with chunk_index k, the record's meeting_key, date and name, the span's
\* bounds and the text normalized[char_start:char_end]; for max_chars >= 1
\* that slice is the substring at those offsets.
C10_OneRecordPerSpan ==
    Returns =>
        /\ Len(chunks) = Len(spans)
        /\ \A k \in 1..Len(chunks) :
              /\ chunks[k].chunk_index = k - 1
              /\ chunks[k].meeting_key = record.meeting_key
              /\ chunks[k].date_ymd = record.date_ymd
              /\ chunks[k].meeting_name = record.meeting_name
              /\ chunks[k].char_start = spans[k][1]
              /\ chunks[k].char_end = spans[k][2]
              /\ chunks[k].text = PySlice(normalized, spans[k][1], spans[k][2])
              /\ max_chars >= 1 =>
                    /\ 0 <= spans[k][1] /\ spans[k][1] < spans[k][2]
                    /\ spans[k][2] <= Len(normalized)
                    /\ chunks[k].text = SubSeq(normalized, spans[k][1] + 1, spans[k][2])

C10_Witness == Returns /\ max_chars >= 1 /\ overlap_chars > 0 /\ Len(chunks) >= 3

\* C5: the identifier is the digest of "{meeting_key}|{chunk_index}|{text}";
\* changing any one of the three arguments, the other two kept, changes it.
C5_IdDependsOnEachArgument ==
    Returns =>
        LET key == id_args[1]
            idx == id_args[2]
            text == id_args[3]
        IN /\ chunk_id = sha1_hexdigest(chunk_id_payload(key, idx, text))
           /\ \A k2 \in IdKeys \ {key} : stable_chunk_id(k2, idx, text) # chunk_id
           /\ \A i2 \in (0..MaxIndex) \ {idx} : stable_chunk_id(key, i2, text) # chunk_id
           /\ \A t2 \in IdSlices \ {text} : stable_chunk_id(key, idx, t2) # chunk_id

\* An identifier for a two-digit index with '|' in the key and in the text.
C5_Witness ==
    /\ Returns
    /\ id_args[2] >= 10
    /\ \E k \in 1..Len(id_args[1]) : id_args[1][k] = PIPE
    /\ \E k \in 1..Len(id_args[3]) : id_args[3][k] = PIPE

\* One left-to-right pass over the raw text in which every line-ending token
\* becomes one newline by itself: the four-character escape, a real CR LF,
\* a two-character escape, a lone CR; a tab becomes a space.
RECURSIVE OneForOne(_, _)
OneForOne(s, i) ==
    IF i >= Len(s) THEN << >>
    ELSE IF StartsWithAt(s, EscCRLF, i) THEN << LF >> \o OneForOne(s, i + 4)
    ELSE IF StartsWithAt(s, << CR, LF >>, i) THEN << LF >> \o OneForOne(s, i + 2)
    ELSE IF StartsWithAt(s, EscLF, i) \/ StartsWithAt(s, EscCR, i)
         THEN << LF >> \o OneForOne(s, i + 2)
    ELSE IF s[i + 1] = CR THEN << LF >> \o OneForOne(s, i + 1)
    ELSE IF s[i + 1] = TAB THEN << SP >> \o OneForOne(s, i + 1)
    ELSE << s[i + 1] >> \o OneForOne(s, i + 1)

\* Length of the escape that starts at offset i, or 0.
EscapeLengthAt(s, i) ==
    IF StartsWithAt(s, EscCRLF, i) THEN 4
    ELSE IF StartsWithAt(s, EscLF, i) \/ StartsWithAt(s, EscCR, i) THEN 2
    ELSE 0

\* The same pass, except that a real CR directly followed by an escape gives
\* one newline together with it.
RECURSIVE OneForOneMergingCR(_, _)
OneForOneMergingCR(s, i) ==
    IF i >= Len(s) THEN << >>
    ELSE IF EscapeLengthAt(s, i) > 0
         THEN << LF >> \o OneForOneMergingCR(s, i + EscapeLengthAt(s, i))
    ELSE IF StartsWithAt(s, << CR, LF >>, i)
         THEN << LF >> \o OneForOneMergingCR(s, i + 2)
    ELSE IF s[i + 1] = CR
         THEN << LF >> \o OneForOneMergingCR(s, i + 1 + EscapeLengthAt(s, i + 1))
    ELSE IF s[i + 1] = TAB THEN << SP >> \o OneForOneMergingCR(s, i + 1)
    ELSE << s[i + 1] >> \o OneForOneMergingCR(s, i + 1)

\* C6 (as claimed): every escape, every real CR LF and every lone CR becomes
\* exactly one newline of its own, every tab one space, and all other
\* characters keep their order, up to the later collapse and trim.
C6_LineEndingsOneForOne ==
    Returns =>
        normalized = Strip(CollapseNewlines(OneForOne(StripBOM(raw), 0)))

\* C6 (amended): as above, except that a real CR directly followed by a
\* literal escape is merged with it into a single newline.
C6_LineEndingsOneForOneButCREscape ==
    Returns =>
        normalized = Strip(CollapseNewlines(OneForOneMergingCR(StripBOM(raw), 0)))

\* Between two letters, a real CR directly followed by an escape (one
\* newline in all), or the four-character escape alone (one newline).
C6_Witness ==
    /\ Returns
    /\ raw = << LETTER_N, CR, BACKSLASH, LETTER_N, LETTER_N >>
       \/ raw = << LETTER_N, BACKSLASH, LETTER_R, BACKSLASH, LETTER_N, LETTER_N >>
    /\ normalized = << LETTER_N, LF, LETTER_N >>

HasPairAt(s, pair) == \E i \in 0..(Len(s) - 2) : StartsWithAt(s, pair, i)

\* C7: the normalized text has no CR, no tab, no literal \n or \r escape,
\* no run of three newlines and no whitespace at either end.
C7_NormalizedShape ==
    Returns =>
        /\ \A i \in 1..Len(normalized) : normalized[i] \notin {CR, TAB}
        /\ ~HasPairAt(normalized, EscLF)
        /\ ~HasPairAt(normalized, EscCR)
        /\ \A i \in 0..(Len(normalized) - 1) : RunLength(normalized, LF, i) < 3
        /\ normalized # << >> =>
              ~IsSpace(normalized[1]) /\ ~IsSpace(normalized[Len(normalized)])

\* Four newlines between two letters, collapsed to two.
C7_Witness ==
    /\ Returns
    /\ raw = << LETTER_N, LF, LF, LF, LF, LETTER_N >>
    /\ normalized = << LETTER_N, LF, LF, LETTER_N >>

\* chunk_text's chunks for the first n records, joined in record order.
RECURSIVE ExpectedChunks(_)
ExpectedChunks(n) ==
    IF n = 0 THEN << >>
    ELSE ExpectedChunks(n - 1) \o chunk_text(records[n], max_chars, overlap_chars).chunks

\* C8: a record whose transcript is empty, or normalizes to the empty string,
\* gives no chunk and raises nothing, whatever max_chars and overlap_chars.
C8_EmptyTranscriptGivesNothing ==
    (cursor > 0 /\ (record.transcript = << >>
                    \/ normalize_text(record.transcript) = << >>)) =>
        /\ pc # "raise"
        /\ pc # "yield"
        /\ current = << >>

\* Empty and blank transcripts taken with a non-positive budget.
C8_Witness ==
    /\ pc = "done"
    /\ max_chars <= 0
    /\ Len(records) = 2
    /\ records[1].transcript = << >>
    /\ records[2].transcript # << >>
    /\ normalize_text(records[2].transcript) = << >>

\* C9: the generator emits chunk_text's chunks record by record, in order:
\* at every point what has been emitted is the chunks of the records already
\* finished followed by the chunks of the current record yielded so far, and
\* when the generator returns it is the whole concatenation.
C9_StreamIsConcatenation ==
    /\ pc = "yield" =>
          /\ inner < Len(current)
          /\ current = chunk_text(records[cursor], max_chars, overlap_chars).chunks
          /\ emitted = ExpectedChunks(cursor - 1) \o SubSeq(current, 1, inner)
    /\ pc = "for" => emitted = ExpectedChunks(cursor)
    /\ pc = "raise" => emitted = ExpectedChunks(cursor - 1)
    /\ pc = "done" => emitted = ExpectedChunks(Len(records))

\* A record without chunks followed by one with several, all emitted.
C9_Witness ==
    /\ pc = "done"
    /\ Len(records) = 2
    /\ chunk_text(records[1], max_chars, overlap_chars).chunks = << >>
    /\ Len(emitted) >= 2
    /\ emitted[1].chunk_index = 0

\* C16 (as claimed): with max_chars <= 0 the stream is rejected at once: no
\* record is ever taken, no chunk is ever emitted and the generator never
\* finishes normally.
C16_BadBudgetRejectedFirst ==
    max_chars <= 0 => (cursor = 0 /\ emitted = << >> /\ pc # "done")

\* ------------------------------------------------------------------------
\* The record source.
\* ------------------------------------------------------------------------

\* The header names a column exactly.
HasColumn(file, name) ==
    \E j \in 1..Len(file.fieldnames) : file.fieldnames[j] = name

\* The cell of line r of the file under the (last) column of that name, or
\* None when there is no such column or the line is too short.
Cell(file, r, name) ==
    LET js == {j \in 1..Len(file.fieldnames) : file.fieldnames[j] = name}
    IN IF js = {} \/ SetMax(js) > Len(file.rows[r]) THEN None
       ELSE file.rows[r][SetMax(js)]

\* The transcript of line r: content_clean when it is non-empty, else content.
TranscriptOf(file, r) ==
    IF Truthy(Cell(file, r, COL_CONTENT_CLEAN)) THEN Cell(file, r, COL_CONTENT_CLEAN)
    ELSE IF Truthy(Cell(file, r, COL_CONTENT)) THEN Cell(file, r, COL_CONTENT)
    ELSE << >>

\* << source_file, row_index, transcript >> of the records expected from the
\* first n lines of a file, in line order.
RECURSIVE ExpectedFromLines(_, _)
ExpectedFromLines(file, n) ==
    IF n = 0 THEN << >>
    ELSE ExpectedFromLines(file, n - 1)
         \o (IF /\ file.is_file
                 /\ (HasColumn(file, COL_CONTENT) \/ HasColumn(file, COL_CONTENT_CLEAN))
                 /\ TranscriptOf(file, n) # << >>
              THEN << << file.name, n - 1, TranscriptOf(file, n) >> >>
              ELSE << >>)

\* The same for the first k paths, whole, in path order.
RECURSIVE ExpectedFromPaths(_)
ExpectedFromPaths(k) ==
    IF k = 0 THEN << >>
    ELSE ExpectedFromPaths(k - 1) \o ExpectedFromLines(paths[k], Len(paths[k].rows))

YieldedSummary ==
    [n \in 1..Len(yielded) |->
        << yielded[n].source_file, yielded[n].row_index, yielded[n].transcript >>]

\* C17: iter_meeting_records yields a record exactly for the rows with a
\* non-empty transcript of the files whose header has a content or
\* content_clean column, in file order then row order, with row_index the
\* position of the row in its file, the skipped rows counted.
C17_SourceYieldsTranscriptRows ==
    /\ \A n \in 1..Len(yielded) : yielded[n].transcript # << >>
    /\ pc = "rows" =>
          YieldedSummary = ExpectedFromPaths(path_idx - 1)
                           \o ExpectedFromLines(paths[path_idx], row_idx)
    /\ pc = "for" => YieldedSummary = ExpectedFromPaths(path_idx)
    /\ pc = "done" => YieldedSummary = ExpectedFromPaths(Len(paths))

\* After a file that is skipped, a file whose first row is skipped and
\* whose second row is yielded with row_index 1.
C17_Witness ==
    /\ pc = "done"
    /\ Len(paths) = 2
    /\ ~has_transcript_columns(paths[1].fieldnames)
    /\ Len(paths[2].rows) = 2
    /\ Len(yielded) = 1
    /\ yielded[1].row_index = 1
    /\ yielded[1].source_file = paths[2].name

\* ------------------------------------------------------------------------
\* Paragraph blocks and base spans of the text being chunked.
\* ------------------------------------------------------------------------
Blocks == paragraph_block_spans(normalized)

BlockLen(k) == Blocks[k][2] - Blocks[k][1]

BlockHasSentenceEnd(k) ==
    sentence_end_positions(PySlice(normalized, Blocks[k][1], Blocks[k][2])) # << >>

\* The base spans that lie inside block k, in order.
BaseSpansIn(k) ==
    SelectSeq(base_spans,
              LAMBDA sp : Blocks[k][1] <= sp[1] /\ sp[2] <= Blocks[k][2])

\* ceil(a / b) for b > 0
CeilDiv(a, b) == (a + b - 1) \div b

\* The windows [start + i*max_chars, start + min((i+1)*max_chars, L)), i = 0, 1, ...
FixedWindows(start, L) ==
    [i \in 1..CeilDiv(L, max_chars) |->
        << start + (i - 1) * max_chars, start + Min(i * max_chars, L) >>]

\* C11: a paragraph block of length L > max_chars without a sentence end is
\* split into ceil(L / max_chars) spans, the i-th (from 0) being
\* [start + i*max_chars, start + min((i+1)*max_chars, L)).
C11_FixedWidthFallback ==
    (Returns /\ max_chars >= 1) =>
        \A k \in 1..Len(Blocks) :
           (BlockLen(k) > max_chars /\ ~BlockHasSentenceEnd(k)) =>
               BaseSpansIn(k) = FixedWindows(Blocks[k][1], BlockLen(k))

\* A block without sentence ends cut into three windows or more, the last
\* one shorter than max_chars.
C11_Witness ==
    /\ Returns /\ max_chars >= 2
    /\ \E k \in 1..Len(Blocks) :
          /\ BlockLen(k) > max_chars /\ ~BlockHasSentenceEnd(k)
          /\ BlockLen(k) % max_chars # 0
          /\ Len(BaseSpansIn(k)) >= 3

\* Index of the base span that holds the first character of block k.
SpanOfBlock(k) ==
    CHOOSE i \in 1..Len(base_spans) :
        base_spans[i][1] <= Blocks[k][1] /\ Blocks[k][1] < base_spans[i][2]

\* C12: block k+1 joins the span pending after block k exactly when its end
\* is at most max_chars from that span's start; otherwise the pending span
\* ends at the end of block k and a new span starts at the start of block k+1.
\* A span is pending after block k exactly when block k fits in max_chars.
C12_MergePolicy ==
    (Returns /\ max_chars >= 1) =>
        \A k \in 1..(Len(Blocks) - 1) :
           LET pending == BlockLen(k) <= max_chars
               held == base_spans[SpanOfBlock(k)]
               next == base_spans[SpanOfBlock(k + 1)]
           IN IF pending /\ Blocks[k + 1][2] - held[1] <= max_chars
              THEN /\ SpanOfBlock(k + 1) = SpanOfBlock(k)
                   /\ held[2] >= Blocks[k + 1][2]
              ELSE /\ next[1] = Blocks[k + 1][1]
                   /\ pending => /\ held[2] = Blocks[k][2]
                                  /\ SpanOfBlock(k + 1) = SpanOfBlock(k) + 1

\* Two paragraphs merged with a width of exactly max_chars, a third one that
\* would exceed it starting a new span.
C12_Witness ==
    /\ Returns /\ max_chars >= 1
    /\ Len(Blocks) = 3
    /\ Len(base_spans) = 2
    /\ base_spans[1] = << Blocks[1][1], Blocks[2][2] >>
    /\ base_spans[1][2] - base_spans[1][1] = max_chars
    /\ base_spans[2] = Blocks[3]
    /\ BlockLen(3) <= max_chars


\* The base span sp and block k have a character in common.
Meets(sp, k) == sp[1] < Blocks[k][2] /\ Blocks[k][1] < sp[2]

\* What split_block_into_spans returns for block k.
PiecesOf(k) ==
    split_block_into_spans(Blocks[k][1],
                           PySlice(normalized, Blocks[k][1], Blocks[k][2]),
                           max_chars).spans

\* C22: a block longer than max_chars is never merged with its neighbours:
\* every base span that holds one of its characters lies inside the block,
\* these spans are the splitter's pieces for the block, the span before them
\* ends with the previous block at the latest and the block after them
\* starts a span of its own; a block that fits is never handed to the
\* splitter, it lies whole in one base span.
C22_OversizedStandsAlone ==
    (Returns /\ max_chars >= 1) =>
        \A k \in 1..Len(Blocks) :
           IF BlockLen(k) > max_chars
           THEN /\ \A i \in 1..Len(base_spans) :
                      Meets(base_spans[i], k) =>
                          /\ Blocks[k][1] <= base_spans[i][1]
                          /\ base_spans[i][2] <= Blocks[k][2]
                /\ BaseSpansIn(k) = PiecesOf(k)
                /\ k > 1 => base_spans[SpanOfBlock(k) - 1][2] <= Blocks[k - 1][2]
                /\ k < Len(Blocks) =>
                      base_spans[SpanOfBlock(k + 1)][1] = Blocks[k + 1][1]
           ELSE \E i \in 1..Len(base_spans) :
                   base_spans[i][1] <= Blocks[k][1] /\ Blocks[k][2] <= base_spans[i][2]

\* An oversized block split in two or more after a paragraph that fits.
C22_Witness ==
    /\ Returns /\ max_chars >= 2
    /\ \E k \in 2..Len(Blocks) :
          /\ BlockLen(k) > max_chars
          /\ BlockLen(k - 1) <= max_chars
          /\ Len(BaseSpansIn(k)) >= 2

\* Blocks i..j are a maximal run of consecutive blocks that fit in max_chars.
FittingRun(i, j) ==
    /\ i <= j
    /\ \A k \in i..j : BlockLen(k) <= max_chars
    /\ i > 1 => BlockLen(i - 1) > max_chars
    /\ j < Len(Blocks) => BlockLen(j + 1) > max_chars

\* The least number of groups of consecutive blocks into which blocks i..j
\* can be cut with every group at most max_chars wide from the start of its
\* first block to the end of its last, over every choice of the first group.
RECURSIVE MinGroups(_, _)
MinGroups(i, j) ==
    IF i > j THEN 0
    ELSE LET firsts == {m \in i..j : Blocks[m][2] - Blocks[i][1] <= max_chars}
             rest == {MinGroups(m + 1, j) : m \in firsts}
         IN 1 + CHOOSE r \in rest : \A q \in rest : r <= q

\* The number of base spans made of blocks i..j.
SpansOfRun(i, j) ==
    Cardinality({s \in 1..Len(base_spans) :
                    Blocks[i][1] <= base_spans[s][1] /\ base_spans[s][2] <= Blocks[j][2]})

\* C23: for every maximal run of consecutive blocks that each fit in
\* max_chars, the builder makes as few base spans as any cut of the run into
\* consecutive groups of width at most max_chars.
C23_GreedyIsOptimal ==
    (Returns /\ max_chars >= 1) =>
        \A i, j \in 1..Len(Blocks) :
           FittingRun(i, j) => SpansOfRun(i, j) = MinGroups(i, j)

\* Three paragraphs that fit, packed into two spans.
C23_Witness ==
    /\ Returns /\ max_chars >= 1
    /\ Len(Blocks) = 3
    /\ FittingRun(1, 3)
    /\ SpansOfRun(1, 3) = 2
\* C13: for a non-empty normalized text, max_chars >= 1 and overlap_chars >= 0,
\* the ends of the final spans increase strictly along the list, the first
\* span starts at 0 and the last ends at len(text).
C13_EndsIncreaseToLen ==
    (Returns /\ normalized # << >> /\ max_chars >= 1) =>
        /\ spans # << >>
        /\ spans[1][1] = 0
        /\ spans[Len(spans)][2] = Len(normalized)
        /\ \A i \in 2..Len(spans) : spans[i][2] > spans[i - 1][2]

\* An oversized block with a sentence end and a tail after it, with overlap.
C13_Witness ==
    /\ Returns /\ max_chars >= 2 /\ overlap_chars > 0
    /\ Len(Blocks) = 1
    /\ BlockLen(1) > max_chars /\ BlockHasSentenceEnd(1)
    /\ Len(spans) >= 3
    /\ ~SentenceLookahead(normalized, spans[Len(spans) - 1][2])

\* C14: apply_overlap keeps the number and order of the spans, every end and
\* the whole first span; for overlap_chars > 0 each later start becomes
\* min(original start, max(0, previous end - overlap_chars)), so it only
\* moves earlier or stays; with overlap_chars = 0 or no span the list is
\* returned unchanged.
C14_OverlapFrame ==
    Returns =>
        /\ Len(spans) = Len(base_spans)
        /\ \A i \in 1..Len(spans) : spans[i][2] = base_spans[i][2]
        /\ spans # << >> => spans[1] = base_spans[1]
        /\ overlap_chars > 0 =>
              \A i \in 2..Len(spans) :
                 /\ spans[i][1] = Min(base_spans[i][1],
                                      Max(0, base_spans[i - 1][2] - overlap_chars))
                 /\ spans[i][1] <= base_spans[i][1]
        /\ (overlap_chars = 0 \/ base_spans = << >>) => spans = base_spans

\* A start pulled back and clipped at offset 0.
C14_Witness ==
    /\ Returns /\ max_chars >= 1 /\ overlap_chars > 0
    /\ Len(spans) >= 3
    /\ base_spans[2][1] > 0
    /\ base_spans[1][2] - overlap_chars < 0
    /\ spans[2][1] = 0

\* C15: for overlap_chars > 0 (and max_chars >= 1) every offset of the
\* normalized text lies in some final span, and no span starts after the end
\* of the span before it.
C15_OverlapLeavesNoGap ==
    (Returns /\ max_chars >= 1 /\ overlap_chars > 0) =>
        /\ \A offset \in 0..(Len(normalized) - 1) :
              \E i \in 1..Len(spans) : spans[i][1] <= offset /\ offset < spans[i][2]
        /\ \A i \in 2..Len(spans) : spans[i][1] <= spans[i - 1][2]

\* A blank-line separator between two base spans, covered with an overlap
\* of one character.
C15_Witness ==
    /\ Returns /\ max_chars >= 1 /\ overlap_chars = 1
    /\ \E i \in 2..Len(spans) :
          /\ base_spans[i][1] >= base_spans[i - 1][2] + 2
          /\ spans[i][1] = base_spans[i - 1][2] - 1

\* ------------------------------------------------------------------------
\* The splitter, step by step.
\* ------------------------------------------------------------------------
IsSentenceEnd(e) == \E k \in 1..Len(ends) : ends[k] = e

\* A step of the loop over ends that emits a span.
LoopCloses ==
    /\ pc = "loop"
    /\ end_idx < Len(ends)
    /\ end_idx' = end_idx + 1
    /\ ends[end_idx + 1] - split_state.current_start > max_chars

\* C18 (as claimed): a span of an oversized block ends at an offset that is
\* neither a sentence end nor the block end only if no sentence end lies
\* within max_chars after the span's start.
C18_MidSentenceOnlyWhenForced ==
    (pc = "return" /\ max_chars >= 1 /\ Len(block_text) > max_chars) =>
        \A i \in 1..Len(split_spans) :
           LET from == split_spans[i][1] - block_start
               to == split_spans[i][2] - block_start
           IN (~IsSentenceEnd(to) /\ to # Len(block_text)) =>
                 ~\E e \in (from + 1)..(from + max_chars) : IsSentenceEnd(e)

\* C19: in the loop, when the next sentence end is more than max_chars past
\* the window start and no boundary has been accepted in the window, the
\* span emitted is [window start, window start + max_chars) and the next
\* window starts at that cut.
C19_ForcedSplit ==
    [][(LoopCloses /\ split_state.last_end = split_state.current_start) =>
          /\ split_state'.spans =
                Append(split_state.spans,
                       << block_start + split_state.current_start,
                          block_start + split_state.current_start + max_chars >>)
          /\ split_state'.current_start = split_state.current_start + max_chars]_vars

\* A forced cut has just been made, not at a sentence end.
C19_Witness ==
    /\ pc = "loop" /\ max_chars >= 2
    /\ split_state.spans # << >>
    /\ LET last == split_state.spans[Len(split_state.spans)]
       IN /\ last[2] - last[1] = max_chars
          /\ ~IsSentenceEnd(last[2] - block_start)
          /\ split_state.current_start = last[2] - block_start
          /\ split_state.current_start > max_chars

\* b closes the window that starts at from: it is a sentence end within
\* max_chars of from and every later sentence end is further than max_chars.
LastFittingBoundary(from, b) ==
    /\ IsSentenceEnd(b)
    /\ b > from /\ b - from <= max_chars
    /\ \A k \in 1..Len(ends) : ends[k] > b => ends[k] - from > max_chars

\* C20: whenever the splitter closes a window at a sentence boundary b, in
\* the loop or in the flush after it, b is the last sentence end within
\* max_chars of the window start and the next window starts at b.
C20_GreedyPacking ==
    [][/\ (LoopCloses /\ max_chars >= 1
           /\ split_state.last_end # split_state.current_start) =>
              /\ split_state'.spans =
                    Append(split_state.spans,
                           << block_start + split_state.current_start,
                              block_start + split_state.last_end >>)
              /\ LastFittingBoundary(split_state.current_start, split_state.last_end)
              /\ split_state'.current_start = split_state.last_end
       /\ (pc = "loop" /\ pc' = "return" /\ max_chars >= 1
           /\ split_state.last_end > split_state.current_start) =>
              LET n == Len(split_state.spans)
              IN /\ Len(split_spans') > n
                 /\ SubSeq(split_spans', 1, n) = split_state.spans
                 /\ split_spans'[n + 1] = << block_start + split_state.current_start,
                                             block_start + split_state.last_end >>
                 /\ LastFittingBoundary(split_state.current_start,
                                        split_state.last_end)
                 /\ Len(split_spans') > n + 1 =>
                       split_spans'[n + 2][1] = block_start + split_state.last_end
      ]_vars

\* Two sentences packed into one window closed in the loop, and a boundary
\* flushed after the loop.
C20_Witness ==
    /\ pc = "return" /\ max_chars >= 1
    /\ Len(ends) >= 3
    /\ Len(split_spans) >= 2
    /\ split_spans[1] = << block_start, block_start + ends[2] >>
    /\ split_spans[2] = << block_start + ends[2], block_start + ends[Len(ends)] >>


\* C21: for a positive max_chars the spans returned for a block (non-empty,
\* as every paragraph block is) are an exact ordered partition of
\* [block_start, block_start + len(block_text)): the first starts at
\* block_start, each starts where the one before it ends, the last ends at
\* the end of the block and none is empty; a block that fits in max_chars
\* comes back as one unsplit span.
C21_ExactPartition ==
    (Returns /\ max_chars >= 1 /\ block_text # << >>) =>
        /\ split_spans # << >>
        /\ split_spans[1][1] = block_start
        /\ split_spans[Len(split_spans)][2] = block_start + Len(block_text)
        /\ \A i \in 1..(Len(split_spans) - 1) :
              split_spans[i][2] = split_spans[i + 1][1]
        /\ \A i \in 1..Len(split_spans) : split_spans[i][1] < split_spans[i][2]
        /\ (Len(block_text) <= max_chars =>
               split_spans = << << block_start, block_start + Len(block_text) >> >>)

\* A block at a non-zero offset cut inside the loop and again after it.
C21_Witness ==
    /\ Returns /\ max_chars >= 1 /\ block_start > 0
    /\ ends # << >> /\ Len(split_state.spans) >= 1
    /\ Len(split_spans) > Len(split_state.spans) + 1

\* ------------------------------------------------------------------------
\* The paragraph splitter on any text.
\* ------------------------------------------------------------------------
\* para_text[a:b] matches \n\s*\n+ as a whole.
SeparatorAt(a, b) == a < b /\ IsSeparator(PySlice(para_text, a, b))

\* There is a blank-line separator somewhere in para_text[a:b].
HasSeparatorIn(a, b) == \E i \in a..b, j \in a..b : SeparatorAt(i, j)

\* C24: the blocks of a text are non-empty, strictly increasing and apart
\* from each other; no block contains a blank-line separator; the text
\* between two consecutive blocks is exactly one separator match (it is a
\* separator and the greedy match could not have been longer); an empty text
\* has no blocks and a non-empty text without a separator is the single
\* block (0, len(text)).
C24_BlocksBetweenSeparators ==
    Returns =>
        /\ \A k \in 1..Len(blocks) :
              /\ 0 <= blocks[k][1] /\ blocks[k][1] < blocks[k][2]
              /\ blocks[k][2] <= Len(para_text)
              /\ ~HasSeparatorIn(blocks[k][1], blocks[k][2])
        /\ \A k \in 1..(Len(blocks) - 1) :
              /\ blocks[k][2] < blocks[k + 1][1]
              /\ SeparatorAt(blocks[k][2], blocks[k + 1][1])
              /\ \A e \in (blocks[k + 1][1] + 1)..Len(para_text) :
                    ~SeparatorAt(blocks[k][2], e)
        /\ para_text = << >> => blocks = << >>
        /\ (para_text # << >> /\ ~HasSeparatorIn(0, Len(para_text))) =>
               blocks = << << 0, Len(para_text) >> >>

\* Two blocks with a separator of three newlines or more between them, in a
\* text that begins with a separator.
C24_Witness ==
    /\ Returns
    /\ Len(blocks) = 2
    /\ blocks[1][1] > 0
    /\ blocks[2][1] - blocks[1][2] >= 3

\* ------------------------------------------------------------------------
\* The chunk stream, step by step.
\* ------------------------------------------------------------------------
\* C25: the stream is lazy and ordered. A record is taken from the source
\* only at the head of the outer loop, one at a time, when every chunk of
\* the records taken before has been emitted; a chunk is emitted only for
\* the record taken last, in chunk order; and once the source is exhausted
\* and the last record's chunks are emitted the stream ends.
C25_LazyAndOrdered ==
    /\ [][cursor' # cursor =>
             /\ cursor' = cursor + 1
             /\ record' = records[cursor + 1]
             /\ pc = "for" /\ inner = Len(current)
             /\ emitted = ExpectedChunks(cursor)
             /\ emitted' = emitted]_vars
    /\ [][emitted' # emitted =>
             /\ cursor >= 1 /\ cursor' = cursor
             /\ inner < Len(chunk_text(records[cursor], max_chars, overlap_chars).chunks)
             /\ emitted' = Append(emitted,
                                  chunk_text(records[cursor], max_chars,
                                             overlap_chars).chunks[inner + 1])
             /\ Len(emitted') = Len(ExpectedChunks(cursor - 1)) + inner']_vars
    /\ (pc = "for" /\ cursor = Len(records)) ~> (pc = "done")
    /\ [][pc = "done" => pc' = "done" /\ emitted' = emitted /\ cursor' = cursor]_vars

\* Two records of two chunks or more each, all emitted, the stream ended.
C25_Witness ==
    /\ pc = "done"
    /\ Len(records) = 2
    /\ Len(chunk_text(records[1], max_chars, overlap_chars).chunks) >= 2
    /\ Len(chunk_text(records[2], max_chars, overlap_chars).chunks) >= 2
    /\ Len(emitted) >= 4

\* ------------------------------------------------------------------------
\* The date of a record.
\* ------------------------------------------------------------------------
\* YYYY-MM-DD: four digits, '-', two digits, '-', two digits.
IsYMD(d) ==
    /\ Len(d) = 10
    /\ d[5] = HYPHEN /\ d[8] = HYPHEN
    /\ \A i \in {1, 2, 3, 4, 6, 7, 9, 10} : IsDigit(d[i])

\* C26: the date of every Meeting Record the source yields is the empty
\* string or has the shape YYYY-MM-DD.
C26_DateIsYMDOrEmpty ==
    \A n \in 1..Len(yielded) :
       yielded[n].date_ymd = << >> \/ IsYMD(yielded[n].date_ymd)

\* ------------------------------------------------------------------------
\* The width of a chunk.
\* ------------------------------------------------------------------------
ChunkWidth(i) == chunks[i].char_end - chunks[i].char_start

\* C27: for max_chars >= 1 every chunk is at most
\* max_chars + overlap_chars wide.
C27_WidthWithinBudgetPlusOverlap ==
    (Returns /\ max_chars >= 1) =>
        \A i \in 1..Len(chunks) : ChunkWidth(i) <= max_chars + overlap_chars

\* ------------------------------------------------------------------------
\* normalize_text applied to its own result.
\* ------------------------------------------------------------------------
\* C28: normalize_text is idempotent: applied to its own result it returns
\* that result unchanged.
C28_NormalizeIdempotent == pc = "again" => renormalized = normalized

\* ------------------------------------------------------------------------
\* What the base spans leave out.
\* ------------------------------------------------------------------------
\* The character at offset p lies in a base span.
InBaseSpan(p) ==
    \E i \in 1..Len(base_spans) : base_spans[i][1] <= p /\ p < base_spans[i][2]

\* The character at offset p lies in the blank-line separator between two
\* consecutive blocks.
InSeparator(p) ==
    \E k \in 1..(Len(Blocks) - 1) :
       /\ Blocks[k][2] <= p /\ p < Blocks[k + 1][1]
       /\ IsSeparator(PySlice(normalized, Blocks[k][2], Blocks[k + 1][1]))

\* C29: the base spans are pairwise disjoint and in order, and every
\* character of the normalized text that lies in no base span is a
\* whitespace character of a blank-line separator between two blocks.
C29_BaseSpansLeaveOnlySeparators ==
    (Returns /\ max_chars >= 1) =>
        /\ \A i \in 1..Len(base_spans) :
              /\ 0 <= base_spans[i][1] /\ base_spans[i][1] <= base_spans[i][2]
              /\ base_spans[i][2] <= Len(normalized)
        /\ \A i \in 1..(Len(base_spans) - 1) : base_spans[i][2] <= base_spans[i + 1][1]
        /\ \A p \in 0..(Len(normalized) - 1) :
              ~InBaseSpan(p) => IsSpace(normalized[p + 1]) /\ InSeparator(p)

\* One separator inside a base span (two paragraphs merged) and another one
\* left out between two base spans.
C29_Witness ==
    /\ Returns /\ max_chars >= 1
    /\ \E p \in 0..(Len(normalized) - 1) : InSeparator(p) /\ InBaseSpan(p)
    /\ \E p \in 0..(Len(normalized) - 1) : InSeparator(p) /\ ~InBaseSpan(p)

\* ------------------------------------------------------------------------
\* Two triples, one identifier.
\* ------------------------------------------------------------------------
IdTriples == IdKeys \X (0..MaxIndex) \X IdSlices

HasPipe(s) == \E k \in 1..Len(s) : s[k] = PIPE

\* The triple a is digested to the identifier just returned.
SameId(a) ==
    /\ chunk_id_payload(a[1], a[2], a[3])
          = chunk_id_payload(id_args[1], id_args[2], id_args[3])
    /\ stable_chunk_id(a[1], a[2], a[3]) = chunk_id

\* C30 as stated: no other triple, keys and texts with '|' included, is
\* digested to the same string and identifier.
C30_IdInjectiveOnTriples ==
    Returns => \A other \in IdTriples : SameId(other) => other = id_args

\* C30, amended: no other triple is digested to the same string and
\* identifier when neither meeting key contains '|' (the texts may).
C30_IdInjectiveForPipeFreeKeys ==
    (Returns /\ ~HasPipe(id_args[1])) =>
        \A other \in IdTriples :
           (~HasPipe(other[1]) /\ SameId(other)) => other = id_args

\* An identifier for a key with a digit and a text with '|' and a digit.
C30_Witness ==
    /\ Returns
    /\ ~HasPipe(id_args[1])
    /\ \E k \in 1..Len(id_args[1]) : id_args[1][k] = DIGIT0
    /\ HasPipe(id_args[3])
    /\ \E k \in 1..Len(id_args[3]) : id_args[3][k] = DIGIT0
====
